---- MODULE Spec2Model ----
(***************************************************************************)
(* The savings challenge of balance-bloom: the Challenge page              *)
(* (src/src/pages/Challenge.tsx) over the two store tables challenge_40k   *)
(* and challenge_deposits (src/unnamed/part_002).  Every async handler of  *)
(* the page is cut at its awaited store calls: one action issues the       *)
(* handler, one action per store call applies the call to the store and    *)
(* runs the handler's continuation up to its next store call.              *)
(***************************************************************************)
EXTENDS Integers, Sequences, FiniteSets, TLC

VARIABLES challenge_40k, challenge_deposits, page, inflight, emitted, trail

vars == <<challenge_40k, challenge_deposits, page, inflight, emitted, trail>>

(***************************************************************************)
(* Bounds of the model.                                                    *)
(***************************************************************************)
\* handler invocations that may be awaiting the store at the same time
MaxInFlight == 2
\* length of the recorded history of one deposit's stored status
MaxTrail == 3
\* deposits reads in a row that are counted
MaxReads == 2
\* the progress computation's inputs: lists of up to MaxLen deposits with values
\* 1..MaxValue, and targets -1..MaxTarget
MaxLen == 2
MaxValue == 2
MaxTarget == 3

(***************************************************************************)
(* Program constants.                                                      *)
(***************************************************************************)
\* for (let i = 1; i <= 200; i++) / for (let i = 200; i >= 1; i--)
RunMax == 200
\* if (target === 40000)
AdjustTarget == 40000
\* depositValues.indexOf(200)
AdjustValue == 200
\* onClick={() => createChallenge(40200)}
FullTarget == 40200
\* a number that neither button passes
OtherTarget == 50000

\* the deposit buttons that are clicked, by sequence_order
ClickOrders == {1}

Users == {"u1", "u2"}
Sessions == {"s1", "s2"}
NULL == "null"
NOW == "now"

\* the two buttons of the setup dialog
ButtonTargets == {AdjustTarget, FullTarget}
\* createChallenge(target: number): what the signature admits
NumberTargets == ButtonTargets \cup {OtherTarget}

(***************************************************************************)
(* Array helpers, with JavaScript's meaning.                               *)
(***************************************************************************)
\* Array.prototype.indexOf: 0-based index of the first element equal to v, or -1
IndexOf(arr, v) ==
  IF \E k \in 1..Len(arr) : arr[k] = v
  THEN (CHOOSE k \in 1..Len(arr) :
          arr[k] = v /\ \A j \in 1..(k - 1) : arr[j] # v) - 1
  ELSE -1

\* Array.prototype.splice(start, deleteCount) without inserted items
Splice(arr, start, deleteCount) ==
  LET len == Len(arr)
      from == IF start < 0 THEN (IF len + start < 0 THEN 0 ELSE len + start)
              ELSE IF start > len THEN len ELSE start
      cnt == IF deleteCount < 0 THEN 0
             ELSE IF deleteCount > len - from THEN len - from ELSE deleteCount
  IN  [k \in 1..(len - cnt) |-> IF k <= from THEN arr[k] ELSE arr[k + cnt]]

\* for (let i = 1; i <= 200; i++) depositValues.push(i): the k-th push has i = k
PushAscending(arr) == arr \o [k \in 1..RunMax |-> k]

\* mutant: the descending loop stops at i > 1
PushDescendingAboveOne(arr) == arr \o [k \in 1..(RunMax - 1) |-> RunMax - (k - 1)]

\* for (let i = 200; i >= 1; i--) depositValues.push(i): the k-th push has
\* i = 200 - (k - 1)
PushDescending(arr) == arr \o [k \in 1..RunMax |-> RunMax - (k - 1)]

\* the two loops of createChallenge
RawValues == PushDescending(PushAscending(<<>>))

\* mutant: the adjustment is left out
AdjustNothing(arr) == arr

\* mutant: both 200s are removed, as the source comment says
AdjustBoth(arr) == Splice(arr, IndexOf(arr, AdjustValue), 2)

\* depositValues.splice(depositValues.indexOf(200), 1)
Adjust(arr) == Splice(arr, IndexOf(arr, AdjustValue), 1)

\* depositValues as createChallenge(target) leaves it before the map
DepositValues(target) ==
  IF target = AdjustTarget THEN Adjust(RawValues) ELSE RawValues

\* mutant: sequence_order is the 0-based index
DepositsToInsertZeroBased(cid, target) ==
  LET values == DepositValues(target)
  IN  [k \in 1..Len(values) |->
         [challenge_id |-> cid, deposit_value |-> values[k],
          sequence_order |-> k - 1, status |-> "pending"]]

\* depositsToInsert
DepositsToInsert(cid, target) ==
  LET values == DepositValues(target)
  IN  [k \in 1..Len(values) |->
         [challenge_id |-> cid, deposit_value |-> values[k],
          sequence_order |-> (k - 1) + 1, status |-> "pending"]]

\* the sum of arr[lo..hi], by halves
RECURSIVE SumRange(_, _, _)
SumRange(arr, lo, hi) ==
  IF lo > hi THEN 0
  ELSE IF lo = hi THEN arr[lo]
  ELSE LET mid == (lo + hi) \div 2
       IN  SumRange(arr, lo, mid) + SumRange(arr, mid + 1, hi)

Sum(arr) == SumRange(arr, 1, Len(arr))

(***************************************************************************)
(* The store: tables challenge_40k and challenge_deposits with their       *)
(* constraints, defaults and row-level-security policies.                  *)
(***************************************************************************)
\* the least positive integer that is not in ids
LeastUnused(ids) ==
  CHOOSE n \in 1..(Cardinality(ids) + 1) :
    n \notin ids /\ \A m \in 1..(n - 1) : m \in ids

\* the challenge ids that a table, a page or a pending call holds
HeldChallengeIds ==
  {c.id : c \in challenge_40k}
    \cup {page[s].challengeId : s \in Sessions}
    \cup UNION {{inflight[s][i].cid : i \in DOMAIN inflight[s]} : s \in Sessions}

\* the deposits of one bulk insert take one block of consecutive ids
BlockSize == 2 * RunMax

BlockOf(id) == ((id - 1) \div BlockSize) + 1

\* the blocks of the deposit ids that the table, a page or a pending call holds
HeldBlocks ==
  {BlockOf(challenge_deposits[k].id) : k \in DOMAIN challenge_deposits}
    \cup {BlockOf(page[s].deposits[1].id) :
            s \in {x \in Sessions : /\ page[x].deposits # <<>>
                                    /\ page[x].deposits[1].id > 0}}
    \cup UNION {{BlockOf(inflight[s][i].id) :
                   i \in {j \in DOMAIN inflight[s] : inflight[s][j].id > 0}} :
                s \in Sessions}

\* id UUID DEFAULT gen_random_uuid(): a fresh identifier, one that is held nowhere;
\* ids are only compared for equality, so the least such integer stands for it
NextChallengeId == LeastUnused(HeldChallengeIds)

NextDepositId == (LeastUnused(HeldBlocks) - 1) * BlockSize + 1

\* a temp-<i> identifier of createChallenge is no UUID; UUIDs are the positive ids
TempId(i) == -(i + 1)

IsUuid(id) == id > 0

\* mutant: the table has no UNIQUE(user_id)
NoUniqueConstraint(uid) == FALSE

\* UNIQUE(user_id)
UniqueViolation(uid) == \E c \in challenge_40k : c.user_id = uid

\* policy "Users can view their own challenge" and .eq('user_id', uid)
VisibleChallenges(uid, user_id) ==
  {c \in challenge_40k : c.user_id = uid /\ c.user_id = user_id}

\* a null row (data: null)
NoRow == [id |-> 0]

\* .maybeSingle(): the row when exactly one matches, else null
MaybeSingle(rows) == IF Cardinality(rows) = 1 THEN CHOOSE c \in rows : TRUE ELSE NoRow

\* the EXISTS sub-select of the challenge_deposits policies
OwnsChallenge(uid, cid) ==
  \E c \in challenge_40k : c.id = cid /\ c.user_id = uid

\* mutant: the store stamps completed_at on insert
StoredDepositStamped(d, id) ==
  [id |-> id, challenge_id |-> d.challenge_id, deposit_value |-> d.deposit_value,
   sequence_order |-> d.sequence_order, status |-> d.status, completed_at |-> NOW]

\* the row the store keeps for an inserted deposit: generated id, completed_at NULL
StoredDeposit(d, id) ==
  [id |-> id, challenge_id |-> d.challenge_id, deposit_value |-> d.deposit_value,
   sequence_order |-> d.sequence_order, status |-> d.status, completed_at |-> NULL]

\* .insert(depositsToInsert): one statement, all rows or none
InsertedDeposits(rows) ==
  LET first == NextDepositId
  IN  challenge_deposits \o
        [k \in 1..Len(rows) |-> StoredDeposit(rows[k], first + (k - 1))]

IsOrdered(rows) ==
  \A k \in 1..(Len(rows) - 1) : rows[k].sequence_order <= rows[k + 1].sequence_order

\* the position of rows[k] in a stable ascending sort by sequence_order
Rank(rows, k) ==
  1 + Cardinality({j \in DOMAIN rows :
                     \/ rows[j].sequence_order < rows[k].sequence_order
                     \/ rows[j].sequence_order = rows[k].sequence_order /\ j < k})

SortRows(rows) ==
  [r \in DOMAIN rows |-> rows[CHOOSE k \in DOMAIN rows : Rank(rows, k) = r]]

\* mutant: the rows come back in reverse order
OrderBySequenceReversed(rows) == [k \in DOMAIN rows |-> rows[Len(rows) + 1 - k]]

\* .order('sequence_order', { ascending: true }): a stable sort
OrderBySequence(rows) == IF IsOrdered(rows) THEN rows ELSE SortRows(rows)

\* select('*').eq('challenge_id', cid).order(...) under the view policy
SelectDeposits(uid, cid) ==
  OrderBySequence(
    SelectSeq(challenge_deposits,
              LAMBDA r : r.challenge_id = cid /\ OwnsChallenge(uid, r.challenge_id)))

\* the Deposit interface: what the page reads of a fetched row
AsDeposit(r) ==
  [id |-> r.id, deposit_value |-> r.deposit_value,
   sequence_order |-> r.sequence_order, status |-> r.status]

\* mutant: the update is not keyed by the id
UpdateMatchesAny(uid, id, r) == OwnsChallenge(uid, r.challenge_id)

\* the rows .update(...).eq('id', id) changes under the update policy
UpdateMatches(uid, id, r) == r.id = id /\ OwnsChallenge(uid, r.challenge_id)

\* mutant: an update to skipped deletes the deposit
UpdatedDepositsDropping(uid, id, status, completed_at) ==
  SelectSeq(challenge_deposits,
            LAMBDA r : ~(UpdateMatches(uid, id, r) /\ status = "skipped"))

\* .update({ status, completed_at }).eq('id', id)
UpdatedDeposits(uid, id, status, completed_at) ==
  [k \in DOMAIN challenge_deposits |->
     IF UpdateMatches(uid, id, challenge_deposits[k])
     THEN [challenge_deposits[k] EXCEPT !.status = status,
                                        !.completed_at = completed_at]
     ELSE challenge_deposits[k]]

(***************************************************************************)
(* The Challenge page: its React state, one copy per open session.         *)
(***************************************************************************)
\* target_value DECIMAL(12,2): kept in hundredths
StoreDecimal(n) == n * 100

\* Number(challenge.target_value)
NumberOf(d) == d \div 100

\* the useState initial values
InitialPage(uid) ==
  [user |-> uid, deposits |-> <<>>, challengeId |-> 0, targetValue |-> AdjustTarget,
   loading |-> TRUE, setupDialogOpen |-> FALSE]

\* what the step just taken showed and logged: the session, the toast
\* (toast.success / toast.error) and the error its catch block received
Emit(s, toast, error) == [session |-> s, toast |-> toast, error |-> error]

Silent == Emit("none", "none", "none")

\* a handler invocation awaiting a store call
Call(op, target, cid, id, status) ==
  [op |-> op, target |-> target, cid |-> cid, id |-> id, status |-> status]

RemoveAt(q, i) == SubSeq(q, 1, i - 1) \o SubSeq(q, i + 1, Len(q))

RECURSIVE CountCalls(_)
CountCalls(ss) ==
  IF ss = {} THEN 0
  ELSE LET s == CHOOSE x \in ss : TRUE
       IN  Len(inflight[s]) + CountCalls(ss \ {s})

TotalInFlight == CountCalls(Sessions)

\* mutant: the map ignores the id and changes every deposit
MapStatusEvery(prev, id, status) ==
  [k \in DOMAIN prev |-> [prev[k] EXCEPT !.status = status]]

\* setDeposits(prev => prev.map(d => d.id === id ? { ...d, status } : d))
MapStatus(prev, id, status) ==
  [k \in DOMAIN prev |->
     IF prev[k].id = id THEN [prev[k] EXCEPT !.status = status] ELSE prev[k]]

\* setDeposits(depositsToInsert.map((d, i) => ({ ...d, id: `temp-${i}` })))
TempDeposits(rows) ==
  [k \in DOMAIN rows |->
     [id |-> TempId(k - 1), deposit_value |-> rows[k].deposit_value,
      sequence_order |-> rows[k].sequence_order, status |-> rows[k].status]]

\* mutant: the timestamp is written whatever the status
CompletedAtAlways(status) == NOW

\* status === 'completed' ? new Date().toISOString() : null
CompletedAt(status) == IF status = "completed" THEN NOW ELSE NULL

\* mutant: a two-state toggle, a completed deposit goes back to pending
ClickCallToggle(d) ==
  IF d.status = "pending" THEN Call("update", 0, 0, d.id, "completed")
  ELSE Call("reset", 0, 0, d.id, "pending")

\* the deposit button's onClick: the store call it issues for the rendered deposit
ClickCall(d) ==
  IF d.status = "pending" THEN Call("update", 0, 0, d.id, "completed")
  ELSE IF d.status = "completed" THEN Call("update", 0, 0, d.id, "skipped")
  ELSE Call("reset", 0, 0, d.id, "pending")

\* mutant: the filter keeps every deposit that is not pending
CompletedValueNotPending(deposits) ==
  Sum([k \in DOMAIN deposits |->
         IF deposits[k].status # "pending" THEN deposits[k].deposit_value ELSE 0])

\* deposits.filter(d => d.status === 'completed').reduce((sum, d) => sum + d.deposit_value, 0)
CompletedValue(deposits) ==
  Sum([k \in DOMAIN deposits |->
         IF deposits[k].status = "completed" THEN deposits[k].deposit_value ELSE 0])

\* targetValue - completedValue
RemainingValue(targetValue, completedValue) == targetValue - completedValue

\* a number that is not an integer, as the exact quotient num / den (den > 0)
Quotient(num, den) == [num |-> num, den |-> den]

\* mutant: the calculator clamps the percentage to 100
ProgressPercentClamped(completedValue, targetValue) ==
  IF targetValue > 0
  THEN (IF completedValue >= targetValue THEN Quotient(100, 1)
        ELSE Quotient(completedValue * 100, targetValue))
  ELSE Quotient(0, 1)

\* targetValue > 0 ? (completedValue / targetValue) * 100 : 0
ProgressPercent(completedValue, targetValue) ==
  IF targetValue > 0 THEN Quotient(completedValue * 100, targetValue)
  ELSE Quotient(0, 1)

\* q >= n and q === n for a quotient q and an integer n
AtLeast(q, n) == q.num >= n * q.den

EqualTo(q, n) == q.num = n * q.den

\* Math.min(q, n) for a quotient q and an integer n
MathMin(q, n) == IF AtLeast(q, n) THEN Quotient(n, 1) ELSE q

\* what the page computes from its state on a render: the progress values, the
\* width of the bar (in percent) and whether the banner is shown
Rendered(p) ==
  LET completedValue == CompletedValue(p.deposits)
      progressPercent == ProgressPercent(completedValue, p.targetValue)
  IN  [completedValue |-> completedValue,
       remainingValue |-> RemainingValue(p.targetValue, completedValue),
       progressPercent |-> progressPercent,
       width |-> MathMin(progressPercent, 100),
       banner |-> AtLeast(progressPercent, 100)]

\* deposits.filter(d => d.status === status).length
StatusCount(deposits, status) ==
  Cardinality({k \in DOMAIN deposits : deposits[k].status = status})

CompletedCount(deposits) == StatusCount(deposits, "completed")

SkippedCount(deposits) == StatusCount(deposits, "skipped")

(***************************************************************************)
(* Actions.                                                                *)
(***************************************************************************)
\* useEffect(() => { if (user) fetchChallenge() }, [user]) of a page that is
\* mounted, or mounted again once its earlier calls have resolved
Mount(s) ==
  /\ inflight[s] = <<>>
  /\ TotalInFlight < MaxInFlight
  /\ page' = [page EXCEPT ![s] = InitialPage(page[s].user)]
  /\ inflight' = [inflight EXCEPT ![s] = <<Call("fetch_challenge", 0, 0, 0, "")>>]
  /\ emitted' = Silent
  /\ UNCHANGED <<challenge_40k, challenge_deposits, trail>>

\* mutant: a read that creates the challenge row when the owner has none
FetchChallengeRowCreating(s, i, ok) ==
  LET uid == page[s].user
      challenge == IF ok THEN MaybeSingle(VisibleChallenges(uid, uid)) ELSE NoRow
  IN  /\ inflight[s][i].op = "fetch_challenge"
      /\ IF challenge.id # 0
         THEN /\ page' = [page EXCEPT ![s].challengeId = challenge.id,
                                      ![s].targetValue = NumberOf(challenge.target_value)]
              /\ inflight' = [inflight EXCEPT
                                ![s][i] = Call("fetch_deposits", 0, challenge.id, 0, "")]
              /\ UNCHANGED challenge_40k
         ELSE /\ page' = [page EXCEPT ![s].setupDialogOpen = TRUE,
                                      ![s].loading = FALSE]
              /\ inflight' = [inflight EXCEPT ![s] = RemoveAt(@, i)]
              /\ challenge_40k' =
                   IF ok /\ ~UniqueViolation(uid)
                   THEN {[id |-> NextChallengeId, user_id |-> uid,
                          target_value |-> StoreDecimal(AdjustTarget)]}
                   ELSE challenge_40k
      /\ emitted' = Silent
      /\ UNCHANGED <<challenge_deposits, trail>>

\* fetchChallenge: the challenge_40k select resolves
FetchChallengeRow(s, i, ok) ==
  LET uid == page[s].user
      challenge == IF ok THEN MaybeSingle(VisibleChallenges(uid, uid)) ELSE NoRow
  IN  /\ inflight[s][i].op = "fetch_challenge"
      /\ IF challenge.id # 0
         THEN /\ page' = [page EXCEPT ![s].challengeId = challenge.id,
                                      ![s].targetValue = NumberOf(challenge.target_value)]
              /\ inflight' = [inflight EXCEPT
                                ![s][i] = Call("fetch_deposits", 0, challenge.id, 0, "")]
         ELSE /\ page' = [page EXCEPT ![s].setupDialogOpen = TRUE,
                                      ![s].loading = FALSE]
              /\ inflight' = [inflight EXCEPT ![s] = RemoveAt(@, i)]
      /\ emitted' = Silent
      /\ UNCHANGED <<challenge_40k, challenge_deposits, trail>>

\* fetchChallenge: the challenge_deposits select resolves
FetchDepositsCall(s, i, ok) ==
  LET uid == page[s].user
      c == inflight[s][i]
  IN  /\ c.op = "fetch_deposits"
      /\ page' = [page EXCEPT
                    ![s].deposits =
                       IF ok
                       THEN LET data == SelectDeposits(uid, c.cid)
                            IN  [k \in DOMAIN data |-> AsDeposit(data[k])]
                       ELSE @,
                    ![s].loading = FALSE]
      /\ inflight' = [inflight EXCEPT ![s] = RemoveAt(@, i)]
      /\ emitted' = Silent
      /\ UNCHANGED <<challenge_40k, challenge_deposits>>

\* a button of the setup dialog: createChallenge(target) up to its first store call
CreateChallengeClick(s, target) ==
  /\ page[s].setupDialogOpen
  /\ ~page[s].loading
  /\ TotalInFlight < MaxInFlight
  /\ page' = [page EXCEPT ![s].loading = TRUE]
  /\ inflight' = [inflight EXCEPT
                    ![s] = Append(@, Call("insert_challenge", target, 0, 0, ""))]
  /\ emitted' = Silent
  /\ UNCHANGED <<challenge_40k, challenge_deposits, trail>>

\* mutant: createChallenge without its finally block when the insert fails
InsertChallengeLoading(s, i, ok) ==
  LET uid == page[s].user
      c == inflight[s][i]
      row == [id |-> NextChallengeId, user_id |-> uid,
              target_value |-> StoreDecimal(c.target)]
  IN  /\ c.op = "insert_challenge"
      /\ IF ok /\ ~UniqueViolation(uid)
         THEN /\ challenge_40k' = challenge_40k \cup {row}
              /\ inflight' = [inflight EXCEPT
                                ![s][i] = Call("insert_deposits", c.target, row.id, 0, "")]
              /\ emitted' = Silent
              /\ UNCHANGED page
         ELSE /\ emitted' = Emit(s, "Erro ao criar desafio",
                                 IF ok THEN "unique_violation" ELSE "network")
              /\ inflight' = [inflight EXCEPT ![s] = RemoveAt(@, i)]
              /\ UNCHANGED <<challenge_40k, page>>
      /\ UNCHANGED <<challenge_deposits, trail>>

\* createChallenge: the challenge_40k insert resolves
InsertChallenge(s, i, ok) ==
  LET uid == page[s].user
      c == inflight[s][i]
      row == [id |-> NextChallengeId, user_id |-> uid,
              target_value |-> StoreDecimal(c.target)]
  IN  /\ c.op = "insert_challenge"
      /\ IF ok /\ ~UniqueViolation(uid)
         THEN /\ challenge_40k' = challenge_40k \cup {row}
              /\ inflight' = [inflight EXCEPT
                                ![s][i] = Call("insert_deposits", c.target, row.id, 0, "")]
              /\ emitted' = Silent
              /\ UNCHANGED page
         ELSE /\ page' = [page EXCEPT ![s].loading = FALSE]
              /\ emitted' = Emit(s, "Erro ao criar desafio",
                                 IF ok THEN "unique_violation" ELSE "network")
              /\ inflight' = [inflight EXCEPT ![s] = RemoveAt(@, i)]
              /\ UNCHANGED challenge_40k
      /\ UNCHANGED <<challenge_deposits, trail>>

\* createChallenge: the challenge_deposits insert resolves
InsertDeposits(s, i, ok) ==
  LET uid == page[s].user
      c == inflight[s][i]
      depositsToInsert == DepositsToInsert(c.cid, c.target)
  IN  /\ c.op = "insert_deposits"
      /\ IF ok /\ OwnsChallenge(uid, c.cid)
         THEN /\ challenge_deposits' = InsertedDeposits(depositsToInsert)
              /\ page' = [page EXCEPT
                            ![s].challengeId = c.cid,
                            ![s].targetValue = c.target,
                            ![s].deposits = TempDeposits(depositsToInsert),
                            ![s].setupDialogOpen = FALSE,
                            ![s].loading = FALSE]
              /\ emitted' = Emit(s, "Desafio criado com sucesso!", "none")
              /\ inflight' = [inflight EXCEPT
                                ![s][i] = Call("fetch_challenge", 0, 0, 0, "")]
         ELSE /\ page' = [page EXCEPT ![s].loading = FALSE]
              /\ emitted' = Emit(s, "Erro ao criar desafio",
                                 IF ok THEN "policy" ELSE "network")
              /\ inflight' = [inflight EXCEPT ![s] = RemoveAt(@, i)]
              /\ UNCHANGED challenge_deposits
      /\ UNCHANGED <<challenge_40k, trail>>

\* the onClick of the k-th rendered deposit button: the handler up to its store call
ClickHandler(s, k) ==
  /\ ~page[s].loading
  /\ TotalInFlight < MaxInFlight
  /\ inflight' = [inflight EXCEPT ![s] = Append(@, ClickCall(page[s].deposits[k]))]
  /\ emitted' = Silent
  /\ UNCHANGED <<challenge_40k, challenge_deposits, page>>

OnClick(s, k) == ClickHandler(s, k) /\ UNCHANGED trail

\* a click on a loaded deposit, counted: the trail holds the id clicked, once per
\* click
CountedClick(s, k) ==
  /\ page[s].deposits[k].sequence_order \in ClickOrders
  /\ IsUuid(page[s].deposits[k].id)
  /\ Len(trail) < MaxTrail
  /\ ClickHandler(s, k)
  /\ trail' = Append(trail, page[s].deposits[k].id)

\* a deposit button is clicked, one of those the model clicks
DepositClick(s, k) ==
  /\ page[s].deposits[k].sequence_order \in ClickOrders
  /\ OnClick(s, k)

\* the first rendered deposit that is not completed (one past the end when all are)
Front(deposits) ==
  IF \A k \in DOMAIN deposits : deposits[k].status = "completed"
  THEN Len(deposits) + 1
  ELSE CHOOSE k \in DOMAIN deposits :
         /\ deposits[k].status # "completed"
         /\ \A j \in 1..(k - 1) : deposits[j].status = "completed"

\* the buttons clicked when the deposits are worked through in display order: the
\* first deposit that is not completed, or the last completed one while every
\* deposit after it is still pending
WalkOrders(deposits) ==
  {k \in {Front(deposits) - 1, Front(deposits)} \cap DOMAIN deposits :
     \A j \in (k + 1)..Len(deposits) : deposits[j].status = "pending"}

\* a click of the walk, made when no call of the page is pending
WalkClick(s, k) ==
  /\ inflight[s] = <<>>
  /\ OnClick(s, k)

\* a well-formed id that no stored deposit carries: an id of a block that is
\* held by this call, so that no insert takes it
UnknownId == BlockSize + 1

\* updateDepositStatus(depositId: string, ...) called with an id that is not one
\* of the rendered deposits, up to its store call
UpdateRequest(s, id, status) ==
  /\ TotalInFlight < MaxInFlight
  /\ inflight' = [inflight EXCEPT ![s] = Append(@, Call("update", 0, 0, id, status))]
  /\ emitted' = Silent
  /\ UNCHANGED <<challenge_40k, challenge_deposits, page, trail>>

\* mutant: challenge_id without ON DELETE CASCADE, the deposits stay
CascadeNothing(challenges) == challenge_deposits

\* challenge_id REFERENCES challenge_40k(id) ON DELETE CASCADE: the deposits that
\* remain when only the rows of challenges remain
Cascade(challenges) ==
  SelectSeq(challenge_deposits,
            LAMBDA r : \E c \in challenges : c.id = r.challenge_id)

\* the rows .delete().eq('id', cid) removes under policy "Users can delete their
\* own challenge"
DeleteMatches(uid, cid, c) == c.id = cid /\ c.user_id = uid

\* a client of user uid deletes challenge cid from challenge_40k
DeleteChallenge(uid, cid) ==
  LET remaining == {c \in challenge_40k : ~DeleteMatches(uid, cid, c)}
  IN  /\ challenge_40k' = remaining
      /\ challenge_deposits' = Cascade(remaining)
      /\ emitted' = Silent
      /\ UNCHANGED <<page, inflight, trail>>

\* updateDepositStatus: the update resolves
UpdateStatusCall(s, i, ok) ==
  LET uid == page[s].user
      c == inflight[s][i]
  IN  /\ c.op = "update"
      /\ IF ok /\ IsUuid(c.id)
         THEN /\ challenge_deposits' =
                   UpdatedDeposits(uid, c.id, c.status, CompletedAt(c.status))
              /\ page' = [page EXCEPT ![s].deposits = MapStatus(@, c.id, c.status)]
              /\ emitted' = IF c.status = "completed"
                            THEN Emit(s, "Deposito marcado como concluido!", "none")
                            ELSE Silent
         ELSE /\ emitted' = Emit(s, "Erro ao atualizar deposito",
                                 IF ok THEN "invalid_uuid" ELSE "network")
              /\ UNCHANGED <<challenge_deposits, page>>
      /\ inflight' = [inflight EXCEPT ![s] = RemoveAt(@, i)]
      /\ UNCHANGED challenge_40k

\* the onClick's own update ("Reset to pending") resolves; its error is not read
ResetCall(s, i, ok) ==
  LET uid == page[s].user
      c == inflight[s][i]
  IN  /\ c.op = "reset"
      /\ challenge_deposits' =
           IF ok /\ IsUuid(c.id) THEN UpdatedDeposits(uid, c.id, "pending", NULL)
           ELSE challenge_deposits
      /\ page' = [page EXCEPT ![s].deposits = MapStatus(@, c.id, "pending")]
      /\ emitted' = Silent
      /\ inflight' = [inflight EXCEPT ![s] = RemoveAt(@, i)]
      /\ UNCHANGED challenge_40k

(***************************************************************************)
(* Specifications.                                                         *)
(***************************************************************************)
Init ==
  /\ challenge_40k = {}
  /\ challenge_deposits = <<>>
  /\ page = [s \in Sessions |-> InitialPage("u1")]
  /\ inflight = [s \in Sessions |-> <<>>]
  /\ emitted = Silent
  /\ trail = <<>>

\* the stored row of deposit id, as a trail entry
TrailEntry(rows, id) ==
  LET k == CHOOSE j \in DOMAIN rows : rows[j].id = id
  IN  [id |-> id, status |-> rows[k].status, completed_at |-> rows[k].completed_at]

\* the trail after a store update of deposit id: the statuses written, in order,
\* to the deposit that was clicked first
Recorded(id) ==
  IF /\ challenge_deposits' # challenge_deposits
     /\ trail = <<>> \/ trail[1].id = id
  THEN Append(trail, TrailEntry(challenge_deposits', id))
  ELSE trail

FetchDepositRows(s, i, ok) == FetchDepositsCall(s, i, ok) /\ UNCHANGED trail

UpdateDepositStatus(s, i, ok) == UpdateStatusCall(s, i, ok) /\ UNCHANGED trail

ResetDeposit(s, i, ok) == ResetCall(s, i, ok) /\ UNCHANGED trail

\* a click made when no call of the page is pending
SequentialClick(s, k) ==
  /\ inflight[s] = <<>>
  /\ Len(trail) < MaxTrail
  /\ DepositClick(s, k)

\* updateDepositStatus applied by the store, the written status recorded
AppliedUpdate(s, i) ==
  /\ UpdateStatusCall(s, i, TRUE)
  /\ trail' = Recorded(inflight[s][i].id)

\* the reset applied by the store, the written status recorded
AppliedReset(s, i) ==
  /\ ResetCall(s, i, TRUE)
  /\ trail' = Recorded(inflight[s][i].id)

\* the trail after a deposits read: the store the read saw, the list it gave the
\* page, and how many reads in a row saw that store
ReadRecorded(cid, deposits) ==
  LET again == /\ trail # <<>>
               /\ trail[1].store = challenge_deposits
               /\ trail[1].cid = cid
  IN  <<[store |-> challenge_deposits, cid |-> cid, deposits |-> deposits,
         reads |-> IF again /\ trail[1].reads < MaxReads
                   THEN trail[1].reads + 1
                   ELSE IF again THEN MaxReads ELSE 1]>>

\* the deposits read answered by the store, its result recorded
AnsweredRead(s, i) ==
  /\ FetchDepositsCall(s, i, TRUE)
  /\ trail' = ReadRecorded(inflight[s][i].cid, page'[s].deposits)

\* no handler of any page is awaiting the store
Idle == TotalInFlight = 0

\* the page as shipped: the setup dialog's two buttons call createChallenge;
\* every store call resolves delivered (ok) or failed
Next ==
  \E s \in Sessions :
    \/ Mount(s)
    \/ \E target \in ButtonTargets : CreateChallengeClick(s, target)
    \/ \E k \in DOMAIN page[s].deposits : DepositClick(s, k)
    \/ \E i \in DOMAIN inflight[s], ok \in BOOLEAN : FetchChallengeRow(s, i, ok)
    \/ \E i \in DOMAIN inflight[s], ok \in BOOLEAN : FetchDepositRows(s, i, ok)
    \/ \E i \in DOMAIN inflight[s], ok \in BOOLEAN : InsertChallenge(s, i, ok)
    \/ \E i \in DOMAIN inflight[s], ok \in BOOLEAN : InsertDeposits(s, i, ok)
    \/ \E i \in DOMAIN inflight[s], ok \in BOOLEAN : UpdateDepositStatus(s, i, ok)
    \/ \E i \in DOMAIN inflight[s], ok \in BOOLEAN : ResetDeposit(s, i, ok)

Spec == Init /\ [][Next]_vars

\* the handlers called with any argument their signatures admit:
\* createChallenge(target: number), updateDepositStatus(depositId: string, status)
NextApi ==
  \E s \in Sessions :
    \/ Mount(s)
    \/ \E target \in NumberTargets : CreateChallengeClick(s, target)
    \/ \E status \in {"completed", "skipped"} : UpdateRequest(s, UnknownId, status)
    \/ \E k \in DOMAIN page[s].deposits : DepositClick(s, k)
    \/ \E i \in DOMAIN inflight[s], ok \in BOOLEAN : FetchChallengeRow(s, i, ok)
    \/ \E i \in DOMAIN inflight[s], ok \in BOOLEAN : FetchDepositRows(s, i, ok)
    \/ \E i \in DOMAIN inflight[s], ok \in BOOLEAN : InsertChallenge(s, i, ok)
    \/ \E i \in DOMAIN inflight[s], ok \in BOOLEAN : InsertDeposits(s, i, ok)
    \/ \E i \in DOMAIN inflight[s], ok \in BOOLEAN : UpdateDepositStatus(s, i, ok)
    \/ \E i \in DOMAIN inflight[s], ok \in BOOLEAN : ResetDeposit(s, i, ok)

SpecApi == Init /\ [][NextApi]_vars

\* one page, each click resolved before the next one, every status update
\* applied by the store
NextCycle ==
  \E s \in {"s1"} :
    \/ Mount(s)
    \/ \E target \in ButtonTargets : CreateChallengeClick(s, target)
    \/ \E k \in DOMAIN page[s].deposits : SequentialClick(s, k)
    \/ \E i \in DOMAIN inflight[s], ok \in BOOLEAN : FetchChallengeRow(s, i, ok)
    \/ \E i \in DOMAIN inflight[s], ok \in BOOLEAN : FetchDepositRows(s, i, ok)
    \/ \E i \in DOMAIN inflight[s], ok \in BOOLEAN : InsertChallenge(s, i, ok)
    \/ \E i \in DOMAIN inflight[s], ok \in BOOLEAN : InsertDeposits(s, i, ok)
    \/ \E i \in DOMAIN inflight[s] : AppliedUpdate(s, i)
    \/ \E i \in DOMAIN inflight[s] : AppliedReset(s, i)

SpecCycle == Init /\ [][NextCycle]_vars

\* one page whose deposits are worked through in display order, each click
\* resolved before the next; every store call resolves delivered or failed,
\* except the reset, which the store applies
NextWalk ==
  \E s \in {"s1"} :
    \/ Mount(s)
    \/ \E target \in ButtonTargets : CreateChallengeClick(s, target)
    \/ \E k \in WalkOrders(page[s].deposits) : WalkClick(s, k)
    \/ \E i \in DOMAIN inflight[s], ok \in BOOLEAN : FetchChallengeRow(s, i, ok)
    \/ \E i \in DOMAIN inflight[s], ok \in BOOLEAN : FetchDepositRows(s, i, ok)
    \/ \E i \in DOMAIN inflight[s], ok \in BOOLEAN : InsertChallenge(s, i, ok)
    \/ \E i \in DOMAIN inflight[s], ok \in BOOLEAN : InsertDeposits(s, i, ok)
    \/ \E i \in DOMAIN inflight[s], ok \in BOOLEAN : UpdateDepositStatus(s, i, ok)
    \/ \E i \in DOMAIN inflight[s] : ResetDeposit(s, i, TRUE)

SpecWalk == Init /\ [][NextWalk]_vars

\* two pages of one owner, one handler at a time; every deposits read the store
\* answers is recorded
NextRead ==
  \E s \in Sessions :
    \/ Idle /\ Mount(s)
    \/ \E target \in ButtonTargets : Idle /\ CreateChallengeClick(s, target)
    \/ \E k \in DOMAIN page[s].deposits : Idle /\ DepositClick(s, k)
    \/ \E i \in DOMAIN inflight[s], ok \in BOOLEAN : FetchChallengeRow(s, i, ok)
    \/ \E i \in DOMAIN inflight[s] : FetchDepositRows(s, i, FALSE)
    \/ \E i \in DOMAIN inflight[s] : AnsweredRead(s, i)
    \/ \E i \in DOMAIN inflight[s], ok \in BOOLEAN : InsertChallenge(s, i, ok)
    \/ \E i \in DOMAIN inflight[s], ok \in BOOLEAN : InsertDeposits(s, i, ok)
    \/ \E i \in DOMAIN inflight[s], ok \in BOOLEAN : UpdateDepositStatus(s, i, ok)
    \/ \E i \in DOMAIN inflight[s], ok \in BOOLEAN : ResetDeposit(s, i, ok)

SpecRead == Init /\ [][NextRead]_vars

\* one page, and its owner deleting the challenge through the store
NextStore ==
  \E s \in {"s1"} :
    \/ Mount(s)
    \/ \E target \in ButtonTargets : CreateChallengeClick(s, target)
    \/ \E k \in DOMAIN page[s].deposits : DepositClick(s, k)
    \/ \E i \in DOMAIN inflight[s], ok \in BOOLEAN : FetchChallengeRow(s, i, ok)
    \/ \E i \in DOMAIN inflight[s], ok \in BOOLEAN : FetchDepositRows(s, i, ok)
    \/ \E i \in DOMAIN inflight[s], ok \in BOOLEAN : InsertChallenge(s, i, ok)
    \/ \E i \in DOMAIN inflight[s], ok \in BOOLEAN : InsertDeposits(s, i, ok)
    \/ \E i \in DOMAIN inflight[s], ok \in BOOLEAN : UpdateDepositStatus(s, i, ok)
    \/ \E i \in DOMAIN inflight[s], ok \in BOOLEAN : ResetDeposit(s, i, ok)
    \/ \E c \in challenge_40k : DeleteChallenge(page[s].user, c.id)

SpecStore == Init /\ [][NextStore]_vars

\* the statuses of the CHECK constraint
Statuses == {"pending", "completed", "skipped"}

\* the deposit lists the progress computation is applied to
CalcDeposits ==
  UNION {[1..n -> [id : {1}, deposit_value : 1..MaxValue, sequence_order : {1},
                   status : Statuses]] : n \in 0..MaxLen}

\* a loaded page with any of these lists and any target of -1..MaxTarget
InitCalc ==
  /\ challenge_40k = {}
  /\ challenge_deposits = <<>>
  /\ \E deposits \in CalcDeposits, targetValue \in (-1)..MaxTarget :
       page = [s \in Sessions |->
                 [InitialPage("u1") EXCEPT !.deposits = deposits,
                                           !.targetValue = targetValue,
                                           !.loading = FALSE]]
  /\ inflight = [s \in Sessions |-> <<>>]
  /\ emitted = Silent
  /\ trail = <<>>

\* the page renders: the computed values are recorded
Render(s) ==
  /\ trail = <<>>
  /\ ~page[s].loading
  /\ trail' = <<Rendered(page[s])>>
  /\ UNCHANGED <<challenge_40k, challenge_deposits, page, inflight, emitted>>

NextCalc == \E s \in {"s1"} : Render(s)

SpecCalc == InitCalc /\ [][NextCalc]_vars

\* one page whose clicks on a loaded deposit are counted and need not wait for
\* one another; every status update is applied by the store
NextRace ==
  \E s \in {"s1"} :
    \/ Mount(s)
    \/ \E target \in ButtonTargets : CreateChallengeClick(s, target)
    \/ \E k \in DOMAIN page[s].deposits : CountedClick(s, k)
    \/ \E i \in DOMAIN inflight[s], ok \in BOOLEAN : FetchChallengeRow(s, i, ok)
    \/ \E i \in DOMAIN inflight[s], ok \in BOOLEAN : FetchDepositRows(s, i, ok)
    \/ \E i \in DOMAIN inflight[s], ok \in BOOLEAN : InsertChallenge(s, i, ok)
    \/ \E i \in DOMAIN inflight[s], ok \in BOOLEAN : InsertDeposits(s, i, ok)
    \/ \E i \in DOMAIN inflight[s] : UpdateDepositStatus(s, i, TRUE)
    \/ \E i \in DOMAIN inflight[s] : ResetDeposit(s, i, TRUE)

SpecRace == Init /\ [][NextRace]_vars

(***************************************************************************)
(* What the claims read.                                                   *)
(***************************************************************************)
\* the rows of challenge cid, in the order they were inserted
RowsOf(cid) == SelectSeq(challenge_deposits, LAMBDA r : r.challenge_id = cid)

\* the deposit values inserted for challenge cid, in insertion order
ValuesOf(cid) == LET rows == RowsOf(cid) IN [k \in DOMAIN rows |-> rows[k].deposit_value]

\* the challenges whose deposits have been inserted
Funded == {c \in challenge_40k : \E k \in DOMAIN challenge_deposits :
                                    challenge_deposits[k].challenge_id = c.id}

\* the step just taken completed a createChallenge
JustCreated == emitted.toast = "Desafio criado com sucesso!"

Occurrences(arr, v) == Cardinality({k \in DOMAIN arr : arr[k] = v})

(***************************************************************************)
(* C1: for each supported target t (40000, 40200), the deposit values that *)
(* createChallenge(t) generated and inserted sum to exactly t.             *)
(***************************************************************************)
C1_SumEqualsTarget ==
  \A t \in ButtonTargets : \A c \in Funded :
    NumberOf(c.target_value) = t => Sum(ValuesOf(c.id)) = t

\* a challenge of target 40000 is in the store with its deposits
C1_Witness ==
  \E c \in Funded : NumberOf(c.target_value) = AdjustTarget

C4_CreateIsAtomic ==
  \A c \in challenge_40k :
    (\A s \in Sessions : \A i \in DOMAIN inflight[s] :
       ~(inflight[s][i].op = "insert_deposits" /\ inflight[s][i].cid = c.id))
    => Len(RowsOf(c.id)) = (IF NumberOf(c.target_value) = AdjustTarget THEN 399 ELSE 400)

(***************************************************************************)
(* C5: the store holds at most one challenge per owner, also when two      *)
(* createChallenge calls of one owner are interleaved: at most one of them *)
(* gets past the challenge insert, and a conflict is reported only to a    *)
(* caller whose owner has a challenge.                                     *)
(***************************************************************************)
C5_OneChallengePerOwner ==
  /\ \A c1 \in challenge_40k : \A c2 \in challenge_40k :
       c1.user_id = c2.user_id => c1 = c2
  /\ \A u \in Users :
       Cardinality({s \in Sessions :
                      /\ page[s].user = u
                      /\ \E i \in DOMAIN inflight[s] :
                           inflight[s][i].op = "insert_deposits"}) <= 1
  /\ emitted.error = "unique_violation" =>
       \E c \in challenge_40k : c.user_id = page[emitted.session].user

\* one createChallenge has just failed with the conflict while another session of
\* the same owner is between its two store calls
C5_Witness ==
  /\ emitted.error = "unique_violation"
  /\ \E s \in Sessions \ {emitted.session} :
       /\ page[s].user = page[emitted.session].user
       /\ \E i \in DOMAIN inflight[s] : inflight[s][i].op = "insert_deposits"

(***************************************************************************)
(* C6: when the owner already has a challenge, the challenge insert of     *)
(* createChallenge fails, with the store's unique violation when the       *)
(* request reaches the store; the error toast is shown, no deposit insert  *)
(* is issued, and both tables are left exactly as they were.               *)
(***************************************************************************)
C6_DuplicateLeavesStore ==
  [][\A s \in Sessions : \A i \in DOMAIN inflight[s] : \A ok \in BOOLEAN :
       ((\E c \in challenge_40k : c.user_id = page[s].user) /\ InsertChallenge(s, i, ok))
       => /\ challenge_40k' = challenge_40k
          /\ challenge_deposits' = challenge_deposits
          /\ emitted'.session = s
          /\ emitted'.toast = "Erro ao criar desafio"
          /\ ok => emitted'.error = "unique_violation"
          /\ Len(inflight'[s]) = Len(inflight[s]) - 1
          /\ \A j \in DOMAIN inflight'[s] : inflight'[s][j].op # "insert_deposits"]_vars

\* a createChallenge has just failed as a duplicate of a challenge that has its
\* deposits
C6_Witness ==
  /\ emitted.error = "unique_violation"
  /\ \E c \in Funded : c.user_id = page[emitted.session].user

C8_SkippedStaysSkipped ==
  [][\A k \in DOMAIN challenge_deposits :
       challenge_deposits[k].status = "skipped"
       => challenge_deposits'[k].status # "completed"]_vars

(***************************************************************************)
(* C9: no step moves a stored deposit directly from pending to skipped:    *)
(* from pending the only change of status is to completed.                 *)
(***************************************************************************)
C9_PendingNeverSkipped ==
  [][\A k \in DOMAIN challenge_deposits :
       challenge_deposits[k].status = "pending"
       => challenge_deposits'[k].status \in {"pending", "completed"}]_vars

\* the status the n-th click writes to a deposit created pending
CycleStatus(n) == <<"completed", "skipped", "pending">>[((n - 1) % 3) + 1]

(***************************************************************************)
(* C10: from a pending deposit, three clicks, each resolved before the     *)
(* next, write completed, skipped and pending in turn, and the deposit     *)
(* ends pending with completed_at null.                                    *)
(***************************************************************************)
C10_CycleClosure ==
  /\ \A n \in DOMAIN trail :
       /\ trail[n].status = CycleStatus(n)
       /\ trail[n].completed_at = (IF trail[n].status = "completed" THEN NOW ELSE NULL)
  /\ Len(trail) >= 3 => trail[3].status = "pending" /\ trail[3].completed_at = NULL

\* three clicks on one deposit have been resolved
C10_Witness ==
  /\ Len(trail) = 3
  /\ trail[3].status = "pending"
  /\ inflight["s1"] = <<>>
  /\ \E k \in DOMAIN page["s1"].deposits :
       page["s1"].deposits[k].id = trail[3].id /\ page["s1"].deposits[k].status = "pending"

(***************************************************************************)
(* C11: in every reachable store state a deposit's completed_at is         *)
(* non-null exactly when its status is completed: the update to completed  *)
(* sets it, every update to skipped or pending clears it, and a deposit is *)
(* inserted pending with completed_at null.                                *)
(***************************************************************************)
C11_CompletedAtIffCompleted ==
  \A k \in DOMAIN challenge_deposits :
    (challenge_deposits[k].completed_at # NULL)
      <=> (challenge_deposits[k].status = "completed")

\* one stored deposit is skipped with its timestamp cleared while the others
\* are still as inserted
C11_Witness ==
  /\ \E k \in DOMAIN challenge_deposits :
       /\ challenge_deposits[k].status = "skipped"
       /\ challenge_deposits[k].completed_at = NULL
  /\ \E k \in DOMAIN challenge_deposits :
       /\ challenge_deposits[k].status = "pending"
       /\ challenge_deposits[k].completed_at = NULL

(***************************************************************************)
(* C12: a completed deposit can be reset directly to pending (undo): the   *)
(* operation the page offers on a deposit it shows as completed writes     *)
(* status pending with completed_at cleared, without writing skipped.      *)
(***************************************************************************)
C12_UndoFromCompleted ==
  \A s \in Sessions : \A k \in DOMAIN page[s].deposits :
    page[s].deposits[k].status = "completed"
    => LET c == ClickCall(page[s].deposits[k])
       IN  c.status = "pending" /\ CompletedAt(c.status) = NULL

(***************************************************************************)
(* C13: a status update whose deposit id no stored deposit carries is      *)
(* surfaced to the caller as a NotFound error: when such an update reaches *)
(* the store, the caller gets the error toast with a not-found error, no   *)
(* success is reported, and no deposit changes in the store or the page.   *)
(***************************************************************************)
C13_NotFoundSurfaced ==
  [][\A s \in Sessions : \A i \in DOMAIN inflight[s] :
       (/\ inflight[s][i].op = "update"
        /\ IsUuid(inflight[s][i].id)
        /\ \A k \in DOMAIN challenge_deposits :
             challenge_deposits[k].id # inflight[s][i].id
        /\ UpdateDepositStatus(s, i, TRUE))
       => /\ emitted'.session = s
          /\ emitted'.toast = "Erro ao atualizar deposito"
          /\ emitted'.error = "not_found"
          /\ challenge_deposits' = challenge_deposits
          /\ page'[s].deposits = page[s].deposits]_vars

(***************************************************************************)
(* C14: for a challenge created with a supported target, the accumulated   *)
(* value (the sum of the values of the completed deposits) is always       *)
(* between 0 and the target, so the remaining value target - accumulated   *)
(* is never negative; this holds for the value the page computes from its  *)
(* loaded deposits and for the deposits in the store.                      *)
(***************************************************************************)
C14_AccumulatedWithinTarget ==
  /\ \A s \in Sessions :
       page[s].targetValue \in ButtonTargets =>
         LET completedValue == CompletedValue(page[s].deposits)
         IN  /\ 0 <= completedValue
             /\ completedValue <= page[s].targetValue
             /\ RemainingValue(page[s].targetValue, completedValue) >= 0
  /\ \A c \in Funded :
       NumberOf(c.target_value) \in ButtonTargets =>
         LET accumulated == CompletedValue(RowsOf(c.id))
         IN  0 <= accumulated /\ accumulated <= NumberOf(c.target_value)

\* the page shows every deposit of a challenge of target 40000 completed: the
\* accumulated value has reached the target and nothing remains
C14_Witness ==
  /\ page["s1"].targetValue = AdjustTarget
  /\ Len(page["s1"].deposits) = 399
  /\ CompletedValue(page["s1"].deposits) = AdjustTarget
  /\ RemainingValue(page["s1"].targetValue, CompletedValue(page["s1"].deposits)) = 0

\* every deposit the page has loaded is completed
AllCompleted(deposits) ==
  /\ Len(deposits) > 0
  /\ \A k \in DOMAIN deposits : deposits[k].status = "completed"

(***************************************************************************)
(* C15: for a challenge of target 40000 or 40200, when every deposit is    *)
(* completed the page's progressPercent is exactly 100 and its remaining   *)
(* value is 0; and progressPercent >= 100 (the challenge-complete banner)  *)
(* holds only when every deposit is completed.                             *)
(***************************************************************************)
C15_CompleteIffAllCompleted ==
  \A s \in Sessions :
    LET deposits == page[s].deposits
        targetValue == page[s].targetValue
        completedValue == CompletedValue(deposits)
        progressPercent == ProgressPercent(completedValue, targetValue)
    IN  targetValue \in ButtonTargets =>
          /\ AllCompleted(deposits) =>
               /\ EqualTo(progressPercent, 100)
               /\ RemainingValue(targetValue, completedValue) = 0
          /\ AtLeast(progressPercent, 100) => AllCompleted(deposits)

\* the page shows the 400 deposits of a challenge of target 40200 completed, at
\* 100 percent
C15_Witness ==
  /\ page["s1"].targetValue = FullTarget
  /\ Len(page["s1"].deposits) = 400
  /\ AllCompleted(page["s1"].deposits)
  /\ AtLeast(ProgressPercent(CompletedValue(page["s1"].deposits), FullTarget), 100)

(***************************************************************************)
(* C16: an applied update that marks one more deposit completed raises the *)
(* accumulated value by exactly that deposit's value (so never lowers it), *)
(* and an applied update that marks a completed deposit skipped lowers it  *)
(* by exactly that value, so completed followed by skipped returns the     *)
(* accumulated value to what it was; for the page's value and the store's. *)
(***************************************************************************)
C16_AccumulatedSteps ==
  [][\A s \in Sessions : \A i \in DOMAIN inflight[s] :
       LET c == inflight[s][i]
           deposits == page[s].deposits
       IN  (UpdateDepositStatus(s, i, TRUE) /\ IsUuid(c.id)) =>
             /\ \A k \in DOMAIN deposits :
                  deposits[k].id = c.id =>
                    /\ (c.status = "completed" /\ deposits[k].status # "completed") =>
                         /\ CompletedValue(page'[s].deposits)
                              = CompletedValue(deposits) + deposits[k].deposit_value
                         /\ CompletedValue(page'[s].deposits) >= CompletedValue(deposits)
                    /\ (c.status = "skipped" /\ deposits[k].status = "completed") =>
                         CompletedValue(page'[s].deposits)
                           = CompletedValue(deposits) - deposits[k].deposit_value
             /\ \A k \in DOMAIN challenge_deposits :
                  challenge_deposits[k].id = c.id =>
                    /\ (c.status = "completed"
                        /\ challenge_deposits[k].status # "completed") =>
                         CompletedValue(challenge_deposits')
                           = CompletedValue(challenge_deposits)
                               + challenge_deposits[k].deposit_value
                    /\ (c.status = "skipped"
                        /\ challenge_deposits[k].status = "completed") =>
                         CompletedValue(challenge_deposits')
                           = CompletedValue(challenge_deposits)
                               - challenge_deposits[k].deposit_value]_vars

\* the 200th deposit was completed and then skipped: the page's accumulated value
\* is back at the sum of the first 199 deposits
C16_Witness ==
  /\ Len(page["s1"].deposits) >= 200
  /\ Front(page["s1"].deposits) = 200
  /\ page["s1"].deposits[200].status = "skipped"
  /\ CompletedValue(page["s1"].deposits) = (199 * 200) \div 2
  /\ CompletedValue(challenge_deposits) = (199 * 200) \div 2

\* what createChallenge fixes of a stored deposit
Obligation(r) ==
  [id |-> r.id, challenge_id |-> r.challenge_id, deposit_value |-> r.deposit_value,
   sequence_order |-> r.sequence_order]

\* the values and sequence orders createChallenge generates for challenge c
Generated(c) ==
  LET rows == DepositsToInsert(c.id, NumberOf(c.target_value))
  IN  [k \in DOMAIN rows |-> <<rows[k].deposit_value, rows[k].sequence_order>>]

\* the rows a step appended to challenge_deposits
Appended ==
  SubSeq(challenge_deposits', Len(challenge_deposits) + 1, Len(challenge_deposits'))

(***************************************************************************)
(* C17: once a challenge has its deposits, no step adds or removes one of  *)
(* them or changes a deposit's id, challenge, value or sequence_order:     *)
(* every stored deposit is still there after the step with these four      *)
(* unchanged, and rows are only ever added as the complete generated       *)
(* sequence of a challenge that had no deposits.  So the deposits of a     *)
(* challenge stay the ones the generator produced; only status and         *)
(* completed_at change.                                                    *)
(***************************************************************************)
C17_ObligationsFixed ==
  [][/\ Len(challenge_deposits') >= Len(challenge_deposits)
     /\ \/ challenge_deposits' = challenge_deposits
        \/ \A k \in DOMAIN challenge_deposits :
             Obligation(challenge_deposits'[k]) = Obligation(challenge_deposits[k])
     /\ Len(challenge_deposits') > Len(challenge_deposits) =>
          \E c \in challenge_40k \ Funded :
            /\ \A k \in DOMAIN Appended : Appended[k].challenge_id = c.id
            /\ [k \in DOMAIN Appended |->
                  <<Appended[k].deposit_value, Appended[k].sequence_order>>]
                 = Generated(c)]_vars

\* a status update of a deposit of a stored challenge of 399 deposits has just
\* been applied and shown
C17_Witness ==
  /\ emitted.toast = "Deposito marcado como concluido!"
  /\ \E c \in Funded :
       /\ Len(RowsOf(c.id)) = 399
       /\ RowsOf(c.id)[1].status = "completed"

(***************************************************************************)
(* C18: the deposits stored for a challenge carry the sequence orders      *)
(* 1..n (n = 399 for target 40000, 400 for 40200), each once: the k-th     *)
(* inserted deposit has sequence_order k and the k-th generated value, and *)
(* the deposits were inserted in that order.                               *)
(***************************************************************************)
C18_SequenceOrder ==
  \A c \in Funded :
    LET rows == RowsOf(c.id)
        values == DepositValues(NumberOf(c.target_value))
    IN  /\ Len(rows) = (IF NumberOf(c.target_value) = AdjustTarget THEN 399 ELSE 400)
        /\ {rows[k].sequence_order : k \in DOMAIN rows} = 1..Len(rows)
        /\ \A k \in DOMAIN rows :
             /\ rows[k].sequence_order = k
             /\ rows[k].deposit_value = values[k]
             /\ rows[k].id = rows[1].id + (k - 1)

\* a challenge of target 40200 is stored, its last deposit with sequence_order 400
C18_Witness ==
  \E c \in Funded :
    /\ NumberOf(c.target_value) = FullTarget
    /\ Len(RowsOf(c.id)) = 400
    /\ RowsOf(c.id)[400].sequence_order = 400
    /\ RowsOf(c.id)[400].deposit_value = 1

(***************************************************************************)
(* C19: every deposit createChallenge inserts starts with status pending   *)
(* and completed_at null, so right after the creation the accumulated      *)
(* value, the completed count and the skipped count are 0, in the store    *)
(* and on the page that created the challenge.                             *)
(***************************************************************************)
C19_StartsPending ==
  JustCreated =>
    LET deposits == page[emitted.session].deposits
        rows == RowsOf(page[emitted.session].challengeId)
    IN  /\ Len(rows) > 0
        /\ \A k \in DOMAIN rows :
             rows[k].status = "pending" /\ rows[k].completed_at = NULL
        /\ CompletedValue(rows) = 0
        /\ Len(deposits) = Len(rows)
        /\ \A k \in DOMAIN deposits : deposits[k].status = "pending"
        /\ CompletedValue(deposits) = 0
        /\ CompletedCount(deposits) = 0
        /\ SkippedCount(deposits) = 0

\* a createChallenge(40000) has just inserted its 399 deposits and shows them
C19_Witness ==
  /\ JustCreated
  /\ page[emitted.session].targetValue = AdjustTarget
  /\ Len(page[emitted.session].deposits) = 399
  /\ StatusCount(page[emitted.session].deposits, "pending") = 399

(***************************************************************************)
(* C20: a fetchChallenge whose reads are answered by the store gives the   *)
(* page its owner's challenge (id and target) and then that challenge's    *)
(* deposits, all of them, ordered by sequence_order strictly ascending;    *)
(* when the owner has no challenge it gives the 'none' outcome: the setup  *)
(* dialog is opened, no challenge is set and no deposits are loaded.       *)
(***************************************************************************)
C20_FetchChallenge ==
  [][\A s \in Sessions : \A i \in DOMAIN inflight[s] :
       LET owned == {c \in challenge_40k : c.user_id = page[s].user}
       IN  /\ FetchChallengeRow(s, i, TRUE) =>
                /\ \A c \in owned :
                     /\ page'[s].challengeId = c.id
                     /\ page'[s].targetValue = NumberOf(c.target_value)
                     /\ page'[s].setupDialogOpen = page[s].setupDialogOpen
                     /\ inflight'[s][i] = Call("fetch_deposits", 0, c.id, 0, "")
                /\ owned = {} =>
                     /\ page'[s].setupDialogOpen
                     /\ page'[s].challengeId = 0
                     /\ page'[s].deposits = <<>>
                     /\ ~page'[s].loading
                     /\ Len(inflight'[s]) = Len(inflight[s]) - 1
           /\ FetchDepositRows(s, i, TRUE) =>
                LET deposits == page'[s].deposits
                    rows == RowsOf(inflight[s][i].cid)
                IN  /\ \E c \in owned : c.id = inflight[s][i].cid
                    /\ Len(deposits) = Len(rows)
                    /\ \A k \in DOMAIN deposits : deposits[k] = AsDeposit(rows[k])
                    /\ \A k \in 1..(Len(deposits) - 1) :
                         deposits[k].sequence_order < deposits[k + 1].sequence_order]_vars

\* one page got the 'none' outcome before the challenge was created, the other
\* has loaded the challenge and its stored deposits
C20_Witness ==
  /\ page["s2"].setupDialogOpen
  /\ page["s2"].deposits = <<>>
  /\ page["s2"].challengeId = 0
  /\ ~page["s2"].loading
  /\ page["s1"].challengeId # 0
  /\ ~page["s1"].loading
  /\ Len(page["s1"].deposits) = 399
  /\ IsUuid(page["s1"].deposits[1].id)

C22_CascadeDelete ==
  [][/\ \A k \in DOMAIN challenge_deposits' :
          \E c \in challenge_40k' : c.id = challenge_deposits'[k].challenge_id
     /\ \A c \in challenge_40k \ challenge_40k' :
          \A k \in DOMAIN challenge_deposits' :
            challenge_deposits'[k].challenge_id # c.id]_vars

\* the challenge whose 399 deposits the page still shows has been deleted: both
\* tables are empty
C22_Witness ==
  /\ challenge_40k = {}
  /\ challenge_deposits = <<>>
  /\ Len(page["s1"].deposits) = 399
  /\ IsUuid(page["s1"].deposits[1].id)
  /\ page["s1"].challengeId # 0

(***************************************************************************)
(* C23: the computed percentage is (accumulated / target) * 100 when the   *)
(* target is positive and 0 otherwise, without clamping; only the width of *)
(* the displayed bar is clamped, to min(percentage, 100).                  *)
(***************************************************************************)
C23_PercentFormula ==
  trail # <<>> =>
    LET r == trail[1]
        accumulated == r.completedValue
        target == page["s1"].targetValue
        percent == r.progressPercent
    IN  /\ target > 0 => percent.num * target = accumulated * 100 * percent.den
        /\ target <= 0 => EqualTo(percent, 0)
        /\ (target > 0 /\ accumulated > target) => percent.num > 100 * percent.den
        /\ AtLeast(percent, 100) => EqualTo(r.width, 100)
        /\ ~AtLeast(percent, 100) => r.width = percent

\* a render with accumulated 4 and target 3: the percentage is 400 / 3 and the
\* bar is 100 wide
C23_Witness ==
  /\ trail # <<>>
  /\ page["s1"].targetValue = 3
  /\ trail[1].completedValue = 4
  /\ trail[1].progressPercent = Quotient(400, 3)
  /\ EqualTo(trail[1].width, 100)

\* session s has not been opened
Unopened(s) == page[s] = InitialPage(page[s].user) /\ inflight[s] = <<>>

\* the stored status of the deposit of challenge cid with the given sequence_order
StoredStatus(cid, order) ==
  LET rows == RowsOf(cid)
  IN  rows[CHOOSE k \in DOMAIN rows : rows[k].sequence_order = order].status

(***************************************************************************)
(* C24: in a single session, once every click's store call has finished    *)
(* (applied or failed), the status the page shows for each deposit is the  *)
(* deposit's status in the store: a failed store update never changes the  *)
(* local status, in any of the three branches of the click handler.        *)
(***************************************************************************)
C24_LocalEqualsStore ==
  (Unopened("s2") /\ inflight["s1"] = <<>>) =>
    \A k \in DOMAIN page["s1"].deposits :
      LET d == page["s1"].deposits[k]
      IN  d.status = StoredStatus(page["s1"].challengeId, d.sequence_order)

(***************************************************************************)
(* C25: k clicks on one deposit, created pending, leave its stored status  *)
(* k steps along the cycle pending -> completed -> skipped -> pending once *)
(* their store updates have been applied, also when a click is made before *)
(* an earlier click has resolved.                                          *)
(***************************************************************************)
C25_ClicksAdvanceCycle ==
  (trail # <<>> /\ inflight["s1"] = <<>>) =>
    \A k \in DOMAIN challenge_deposits :
      challenge_deposits[k].id = trail[1] =>
        challenge_deposits[k].status = CycleStatus(Len(trail))

(***************************************************************************)
(* C26: a status update or reset of one deposit, applied or failed, leaves *)
(* every other deposit's status and completed_at unchanged in the store    *)
(* and every other deposit unchanged in the page's list, and leaves the    *)
(* challenge's target unchanged in the store and on the page.              *)
(***************************************************************************)
C26_OtherDepositsUnchanged ==
  [][\A s \in Sessions : \A i \in DOMAIN inflight[s] : \A ok \in BOOLEAN :
       (UpdateDepositStatus(s, i, ok) \/ ResetDeposit(s, i, ok)) =>
         /\ challenge_40k' = challenge_40k
         /\ page'[s].targetValue = page[s].targetValue
         /\ Len(challenge_deposits') = Len(challenge_deposits)
         /\ \A k \in DOMAIN challenge_deposits :
              challenge_deposits[k].id # inflight[s][i].id =>
                challenge_deposits'[k] = challenge_deposits[k]
         /\ Len(page'[s].deposits) = Len(page[s].deposits)
         /\ \A k \in DOMAIN page[s].deposits :
              page[s].deposits[k].id # inflight[s][i].id =>
                page'[s].deposits[k] = page[s].deposits[k]
         /\ \A o \in Sessions \ {s} : page'[o] = page[o]]_vars

\* the third deposit has just been marked skipped while the first two stay
\* completed and the fourth pending, in the store and on the page
C26_Witness ==
  /\ Len(challenge_deposits) >= 4
  /\ Len(page["s1"].deposits) >= 4
  /\ inflight["s1"] = <<>>
  /\ \A k \in 1..4 :
       /\ challenge_deposits[k].status
            = <<"completed", "completed", "skipped", "pending">>[k]
       /\ page["s1"].deposits[k].status = challenge_deposits[k].status
       /\ page["s1"].deposits[k].id = challenge_deposits[k].id

\* user uid has a challenge in the store
HasChallenge(uid) == \E c \in challenge_40k : c.user_id = uid

(***************************************************************************)
(* C27: fetchChallenge opens the setup dialog only when the owner has no   *)
(* challenge in the store: whenever the challenge read of a page resolves, *)
(* answered or failed, and leaves the dialog open where it was closed, the *)
(* store holds no challenge of the page's user.                            *)
(***************************************************************************)
C27_DialogOnlyWithoutChallenge ==
  [][\A s \in Sessions : \A i \in DOMAIN inflight[s] : \A ok \in BOOLEAN :
       (/\ FetchChallengeRow(s, i, ok)
        /\ ~page[s].setupDialogOpen
        /\ page'[s].setupDialogOpen) => ~HasChallenge(page[s].user)]_vars

(***************************************************************************)
(* The Dashboard's challenge card, and a specification in which the        *)
(* Dashboard and the Challenge page of one owner both read the store.      *)
(* There the trail holds the last reading of each: what it showed, and the *)
(* store it read.  A change of the stored deposits discards the readings.  *)
(***************************************************************************)
\* useState<ChallengeProgress>({ current: 0, target: 40000 })
InitialProgress == [current |-> 0, target |-> 40000]

\* mutant: the Dashboard counts every deposit that is not pending
SelectNotPending(uid, cid) ==
  SelectSeq(challenge_deposits,
            LAMBDA r : /\ r.challenge_id = cid
                       /\ r.status # "pending"
                       /\ OwnsChallenge(uid, r.challenge_id))

\* .select('deposit_value').eq('challenge_id', id).eq('status', 'completed')
\* under the select policy
SelectCompleted(uid, cid) ==
  SelectSeq(challenge_deposits,
            LAMBDA r : /\ r.challenge_id = cid
                       /\ r.status = "completed"
                       /\ OwnsChallenge(uid, r.challenge_id))

\* fetchData: challengeProgress after the two challenge reads, each answered
\* or failed, of a Dashboard that showed progress
ChallengeProgress(uid, progress, challengeOk, depositsOk) ==
  LET challenge == IF challengeOk THEN MaybeSingle(VisibleChallenges(uid, uid))
                   ELSE NoRow
      deposits == IF depositsOk THEN SelectCompleted(uid, challenge.id) ELSE <<>>
  IN  IF challenge.id # 0
      THEN [current |-> Sum([k \in DOMAIN deposits |-> deposits[k].deposit_value]),
            target |-> NumberOf(challenge.target_value)]
      ELSE progress

\* challengeProgress.target > 0 ? (current / target) * 100 : 0
ChallengePercent(progress) ==
  IF progress.target > 0 THEN Quotient(progress.current * 100, progress.target)
  ELSE Quotient(0, 1)

\* p === q for two quotients
SameQuotient(p, q) ==
  IF p.den = q.den THEN p.num = q.num ELSE p.num * q.den = q.num * p.den

\* a reading: who read, whether every read was answered, the store read, and the
\* accumulated value, target and percentage shown
Reading(by, answered, current, target, percent) ==
  [by |-> by, answered |-> answered, store |-> challenge_deposits,
   challenges |-> challenge_40k, current |-> current, target |-> target,
   percent |-> percent]

\* the trail with reading r in place of the earlier reading of the same reader
WithReading(r) ==
  LET others == SelectSeq(trail, LAMBDA e : e.by # r.by)
  IN  IF r.by = "dashboard" THEN <<r>> \o others ELSE others \o <<r>>

\* the challengeProgress the Dashboard holds
DashboardState ==
  IF trail # <<>> /\ trail[1].by = "dashboard"
  THEN [current |-> trail[1].current, target |-> trail[1].target]
  ELSE InitialProgress

\* the Dashboard's fetchData runs while no page handler awaits the store
DashboardFetch(uid, challengeOk, depositsOk) ==
  LET progress == ChallengeProgress(uid, DashboardState, challengeOk, depositsOk)
  IN  /\ Idle
      /\ trail' = WithReading(Reading("dashboard", challengeOk /\ depositsOk,
                                      progress.current, progress.target,
                                      ChallengePercent(progress)))
      /\ emitted' = Silent
      /\ UNCHANGED <<challenge_40k, challenge_deposits, page, inflight>>

\* the page's deposits read answered by the store: what the page then shows
PageRead(s, i) ==
  /\ FetchDepositsCall(s, i, TRUE)
  /\ trail' = LET r == Rendered(page'[s])
              IN  WithReading(Reading("page", TRUE, r.completedValue,
                                      page'[s].targetValue, r.progressPercent))

\* the readings that are still of the stored deposits after a step
KeptReadings == IF challenge_deposits' = challenge_deposits THEN trail ELSE <<>>

DashUpdate(s, i, ok) == UpdateStatusCall(s, i, ok) /\ trail' = KeptReadings

DashReset(s, i) == ResetCall(s, i, TRUE) /\ trail' = KeptReadings

\* the deposits that are worked through while the Dashboard is read
MaxWalk == 4

\* one page whose first MaxWalk deposits are worked through in display order, and
\* the owner's Dashboard
NextDash ==
  \E s \in {"s1"} :
    \/ Mount(s)
    \/ \E target \in ButtonTargets : CreateChallengeClick(s, target)
    \/ \E k \in WalkOrders(page[s].deposits) \cap 1..MaxWalk : WalkClick(s, k)
    \/ \E i \in DOMAIN inflight[s], ok \in BOOLEAN : FetchChallengeRow(s, i, ok)
    \/ \E i \in DOMAIN inflight[s] : FetchDepositRows(s, i, FALSE)
    \/ \E i \in DOMAIN inflight[s] : PageRead(s, i)
    \/ \E i \in DOMAIN inflight[s], ok \in BOOLEAN : InsertChallenge(s, i, ok)
    \/ \E i \in DOMAIN inflight[s], ok \in BOOLEAN : InsertDeposits(s, i, ok)
    \/ \E i \in DOMAIN inflight[s], ok \in BOOLEAN : DashUpdate(s, i, ok)
    \/ \E i \in DOMAIN inflight[s] : DashReset(s, i)
    \/ \E challengeOk, depositsOk \in BOOLEAN :
         DashboardFetch(page[s].user, challengeOk, depositsOk)

SpecDash == Init /\ [][NextDash]_vars

(***************************************************************************)
(* C28: for the same store state the Dashboard and the Challenge page show *)
(* the same progress: two readings whose reads were all answered from the  *)
(* same challenge_40k and challenge_deposits have the same accumulated     *)
(* value, the same target and the same percentage.                         *)
(***************************************************************************)
C28_DashboardAgreesWithPage ==
  \A i, j \in DOMAIN trail :
    (/\ trail[i].answered /\ trail[j].answered
     /\ trail[i].store = trail[j].store
     /\ trail[i].challenges = trail[j].challenges) =>
      /\ trail[i].current = trail[j].current
      /\ trail[i].target = trail[j].target
      /\ SameQuotient(trail[i].percent, trail[j].percent)

\* the Dashboard and the page have both read a store with completed and skipped
\* deposits
C28_Witness ==
  /\ Len(trail) = 2
  /\ trail[1].by = "dashboard" /\ trail[2].by = "page"
  /\ trail[1].answered
  /\ trail[1].store = trail[2].store
  /\ trail[1].challenges = trail[2].challenges
  /\ trail[1].current > 0
  /\ \E k \in DOMAIN trail[1].store : trail[1].store[k].status = "skipped"

(***************************************************************************)
(* One page as shipped, with every awaited store call settling: a call     *)
(* that is in flight is eventually answered or failed, and the handler     *)
(* then runs on.                                                           *)
(***************************************************************************)
Settles(s) ==
  /\ WF_vars(\E i \in DOMAIN inflight[s], ok \in BOOLEAN : FetchChallengeRow(s, i, ok))
  /\ WF_vars(\E i \in DOMAIN inflight[s], ok \in BOOLEAN : FetchDepositRows(s, i, ok))
  /\ WF_vars(\E i \in DOMAIN inflight[s], ok \in BOOLEAN : InsertChallenge(s, i, ok))
  /\ WF_vars(\E i \in DOMAIN inflight[s], ok \in BOOLEAN : InsertDeposits(s, i, ok))
  /\ WF_vars(\E i \in DOMAIN inflight[s], ok \in BOOLEAN : UpdateDepositStatus(s, i, ok))
  /\ WF_vars(\E i \in DOMAIN inflight[s], ok \in BOOLEAN : ResetDeposit(s, i, ok))

\* one page as shipped
NextLive ==
  \E s \in {"s1"} :
    \/ Mount(s)
    \/ \E target \in ButtonTargets : CreateChallengeClick(s, target)
    \/ \E k \in DOMAIN page[s].deposits : DepositClick(s, k)
    \/ \E i \in DOMAIN inflight[s], ok \in BOOLEAN : FetchChallengeRow(s, i, ok)
    \/ \E i \in DOMAIN inflight[s], ok \in BOOLEAN : FetchDepositRows(s, i, ok)
    \/ \E i \in DOMAIN inflight[s], ok \in BOOLEAN : InsertChallenge(s, i, ok)
    \/ \E i \in DOMAIN inflight[s], ok \in BOOLEAN : InsertDeposits(s, i, ok)
    \/ \E i \in DOMAIN inflight[s], ok \in BOOLEAN : UpdateDepositStatus(s, i, ok)
    \/ \E i \in DOMAIN inflight[s], ok \in BOOLEAN : ResetDeposit(s, i, ok)

SpecLive == Init /\ [][NextLive]_vars /\ Settles("s1")

\* a fetchChallenge or a createChallenge of page s is running
Loads(s) ==
  \E i \in DOMAIN inflight[s] :
    inflight[s][i].op \in {"fetch_challenge", "fetch_deposits",
                           "insert_challenge", "insert_deposits"}

\* the step is a createChallenge of page s failing
CreateFails(s) ==
  /\ \E i \in DOMAIN inflight[s], ok \in BOOLEAN :
       InsertChallenge(s, i, ok) \/ InsertDeposits(s, i, ok)
  /\ emitted'.toast = "Erro ao criar desafio"

(***************************************************************************)
(* C29: while a fetchChallenge or a createChallenge of a page is running,  *)
(* the page's loading eventually becomes false, whether the store calls    *)
(* are answered or fail; and a createChallenge that fails leaves the       *)
(* page's challengeId, targetValue and deposits unchanged and the setup    *)
(* dialog open.                                                            *)
(***************************************************************************)
C29_LoadingEnds ==
  /\ \A s \in Sessions : Loads(s) ~> ~page[s].loading
  /\ [][\A s \in Sessions :
          CreateFails(s) =>
            /\ page'[s].challengeId = page[s].challengeId
            /\ page'[s].targetValue = page[s].targetValue
            /\ page'[s].deposits = page[s].deposits
            /\ page'[s].setupDialogOpen]_vars

\* a createChallenge has just failed on the owner's second challenge, and the
\* page is no longer loading
C29_Witness ==
  /\ emitted.toast = "Erro ao criar desafio"
  /\ emitted.error = "unique_violation"
  /\ ~page[emitted.session].loading
  /\ page[emitted.session].setupDialogOpen
  /\ inflight[emitted.session] = <<>>

(***************************************************************************)
(* Two users.  User u1 has created a challenge of 40000 on an earlier     *)
(* visit and now calls the store's API directly, with their own            *)
(* credentials, on any stored challenge or deposit; user u2 uses the page. *)
(* There the trail holds the answer to the last direct call: who called    *)
(* and the rows returned.                                                  *)
(***************************************************************************)
InitRls ==
  /\ challenge_40k = {[id |-> 1, user_id |-> "u1",
                       target_value |-> StoreDecimal(AdjustTarget)]}
  /\ challenge_deposits =
       LET rows == DepositsToInsert(1, AdjustTarget)
       IN  [k \in DOMAIN rows |-> StoredDeposit(rows[k], k)]
  /\ page = [s \in Sessions |-> InitialPage(IF s = "s1" THEN "u1" ELSE "u2")]
  /\ inflight = [s \in Sessions |-> <<>>]
  /\ emitted = Silent
  /\ trail = <<>>

\* the rows a direct insert may add to one challenge beyond the generated ones
MaxExtra == 1

ApiResult(uid, rows) == <<[by |-> uid, rows |-> rows]>>

\* the stored deposits that the direct calls name: those the model clicks
NamedIds ==
  {challenge_deposits[k].id :
     k \in {j \in DOMAIN challenge_deposits :
              challenge_deposits[j].sequence_order \in ClickOrders}}

\* mutant: the delete policy lets any authenticated user delete
DeleteDepositMatchesAny(uid, id, r) == r.id = id

\* the rows .delete().eq('id', id) removes under policy "Users can delete their
\* challenge deposits"
DeleteDepositMatches(uid, id, r) == r.id = id /\ OwnsChallenge(uid, r.challenge_id)

\* from('challenge_deposits').select('*').eq('challenge_id', cid) by user uid
ApiSelect(uid, cid) ==
  /\ Idle
  /\ trail' = ApiResult(uid, SelectDeposits(uid, cid))
  /\ emitted' = Silent
  /\ UNCHANGED <<challenge_40k, challenge_deposits, page, inflight>>

\* from('challenge_deposits').update({ status, completed_at }).eq('id', id) by
\* user uid
ApiUpdate(uid, id, status) ==
  /\ Idle
  /\ challenge_deposits' = UpdatedDeposits(uid, id, status, CompletedAt(status))
  /\ trail' = ApiResult(uid, <<>>)
  /\ emitted' = Silent
  /\ UNCHANGED <<challenge_40k, page, inflight>>

\* from('challenge_deposits').delete().eq('id', id) by user uid
ApiDelete(uid, id) ==
  /\ Idle
  /\ challenge_deposits' =
       SelectSeq(challenge_deposits, LAMBDA r : ~DeleteDepositMatches(uid, id, r))
  /\ trail' = ApiResult(uid, <<>>)
  /\ emitted' = Silent
  /\ UNCHANGED <<challenge_40k, page, inflight>>

\* from('challenge_deposits').insert(row) by user uid, of one more deposit of
\* challenge cid; the insert policy rejects it unless uid owns the challenge
ApiInsert(uid, cid) ==
  LET row == [challenge_id |-> cid, deposit_value |-> 1,
              sequence_order |-> 2 * RunMax + 1, status |-> "pending"]
      held == Cardinality({k \in DOMAIN challenge_deposits :
                             challenge_deposits[k].challenge_id = cid})
  IN  /\ Idle
      /\ held < 2 * RunMax + MaxExtra
      /\ challenge_deposits' =
           IF OwnsChallenge(uid, cid) THEN InsertedDeposits(<<row>>)
           ELSE challenge_deposits
      /\ trail' = ApiResult(uid, <<>>)
      /\ emitted' = Silent
      /\ UNCHANGED <<challenge_40k, page, inflight>>

\* from('challenge_40k').delete().eq('id', cid) by user uid
ApiDeleteChallenge(uid, cid) ==
  /\ Idle
  /\ DeleteChallenge(uid, cid)

\* a direct call of user uid
ApiStep(uid) ==
  \/ \E id \in NamedIds, status \in {"completed", "skipped"} : ApiUpdate(uid, id, status)
  \/ \E id \in NamedIds : ApiDelete(uid, id)
  \/ \E c \in challenge_40k : ApiInsert(uid, c.id)
  \/ \E c \in challenge_40k : ApiDeleteChallenge(uid, c.id)
  \/ \E c \in challenge_40k : ApiSelect(uid, c.id)

\* a step of page s, one handler at a time
PageStep(s) ==
  \/ Idle /\ Mount(s)
  \/ \E target \in ButtonTargets : Idle /\ CreateChallengeClick(s, target)
  \/ \E k \in DOMAIN page[s].deposits : Idle /\ DepositClick(s, k)
  \/ \E i \in DOMAIN inflight[s], ok \in BOOLEAN : FetchChallengeRow(s, i, ok)
  \/ \E i \in DOMAIN inflight[s], ok \in BOOLEAN : FetchDepositRows(s, i, ok)
  \/ \E i \in DOMAIN inflight[s], ok \in BOOLEAN : InsertChallenge(s, i, ok)
  \/ \E i \in DOMAIN inflight[s], ok \in BOOLEAN : InsertDeposits(s, i, ok)
  \/ \E i \in DOMAIN inflight[s], ok \in BOOLEAN : UpdateDepositStatus(s, i, ok)
  \/ \E i \in DOMAIN inflight[s], ok \in BOOLEAN : ResetDeposit(s, i, ok)

NextRls ==
  \/ \E s \in {"s2"} : PageStep(s)
  \/ \E uid \in {"u1"} : ApiStep(uid)

SpecRls == InitRls /\ [][NextRls]_vars

\* the step is an operation issued by user uid: a direct call, or a handler of
\* a page of uid
ActsAs(uid) ==
  \/ /\ inflight' = inflight
     /\ trail' = trail \/ trail'[1].by = uid
     /\ ApiStep(uid)
  \/ \E s \in Sessions :
       page[s].user = uid /\ inflight'[s] # inflight[s] /\ PageStep(s)

\* the stored deposits as a set
StoredRows(rows) == {rows[k] : k \in DOMAIN rows}

\* the deposits that a step added, removed or changed
Touched ==
  LET before == StoredRows(challenge_deposits)
      after == StoredRows(challenge_deposits')
  IN  (before \ after) \cup (after \ before)

\* the ids of the stored deposits of the challenges of user uid
OwnedIds(uid) ==
  {r.id : r \in {x \in StoredRows(challenge_deposits) :
                   OwnsChallenge(uid, x.challenge_id)}}

(***************************************************************************)
(* C30: an operation issued by a user, through the page or directly,       *)
(* adds, removes or changes only deposits of challenges that user owns,    *)
(* and returns or loads only deposits of challenges that user owns: no     *)
(* step of user A touches or reveals a deposit of user B's challenge.      *)
(***************************************************************************)
C30_DepositsIsolated ==
  [][\/ challenge_deposits' = challenge_deposits /\ trail' = trail /\ page' = page
     \/ \A uid \in Users :
          ActsAs(uid) =>
            /\ \/ challenge_deposits' = challenge_deposits
               \/ \A r \in Touched : OwnsChallenge(uid, r.challenge_id)
            /\ \/ trail' = trail
               \/ /\ trail'[1].by = uid
                  /\ \A k \in DOMAIN trail'[1].rows :
                       OwnsChallenge(uid, trail'[1].rows[k].challenge_id)
            /\ \A s \in Sessions :
                 (page[s].user = uid /\ page'[s].deposits # page[s].deposits) =>
                   LET owned == OwnedIds(uid)
                   IN  \A k \in DOMAIN page'[s].deposits :
                         IsUuid(page'[s].deposits[k].id) =>
                           page'[s].deposits[k].id \in owned]_vars

\* user u1 has made direct calls that returned no row, has skipped a deposit of
\* their own, and the first deposit of user u2's challenge is completed
C30_Witness ==
  /\ trail = ApiResult("u1", <<>>)
  /\ \E k \in DOMAIN challenge_deposits :
       /\ OwnsChallenge("u1", challenge_deposits[k].challenge_id)
       /\ challenge_deposits[k].status = "skipped"
  /\ \E k \in DOMAIN challenge_deposits :
       /\ OwnsChallenge("u2", challenge_deposits[k].challenge_id)
       /\ challenge_deposits[k].status = "completed"

====
